---- MODULE Spec2Model ----
(***************************************************************************)
(* A model of acsuite: the trim normalizers of acsuite/__init__.py and     *)
(* acsuite/timecode.py, and the segment pipelines eztrim, concat           *)
(* (acsuite/__init__.py) and FFmpegAudio.recut (acsuite/ffmpeg.py) acting  *)
(* on a file system and an external ffmpeg process.                        *)
(*                                                                         *)
(* Python values.  Optional[int] is a sequence of length 0 (None) or 1     *)
(* (the integer).  A trim is a pair <<start, end>> of such values.  The    *)
(* trims argument of eztrim is a record [form, items]: form "tuple" is a   *)
(* bare 2-tuple (items holds that one trim), form "list" is a list of      *)
(* 2-tuples.  A call's outcome is a record whose kind says whether it      *)
(* raised, and the error it raised is the text of the source's message.    *)
(***************************************************************************)
EXTENDS Integers, Sequences, FiniteSets, TLC

VARIABLES
    pc,             \* position of the running operation ("idle", ..., "done")
    op,             \* the operation running: "none", "recut", "eztrim", "concat"
    disk,           \* the file system: path -> "old" (there before the call) | "new"
    log,            \* the external processes spawned so far, in order
    result,         \* how the operation ended: [kind, err, value]
    ranges,         \* recut: the time ranges
    streams,        \* recut: the audio streams
    outfile,        \* recut: the output templates; eztrim, concat: the output path
    combine,        \* recut: one combined output
    partials,       \* recut: the segment files extracted so far
    clipped,        \* recut: the merged file (UnboundPath until assigned)
    num_frames,     \* eztrim: clip.num_frames
    trims,          \* eztrim: the trims argument
    starts,         \* eztrim: resolved starts
    ends,           \* eztrim: resolved ends
    temp_filelist,  \* eztrim: segment files listed so far; concat: the audio files
    debug_dict,     \* eztrim: the local debug_dict (Unbound until assigned)
    env,            \* what the environment answers: files found, ffmpeg found
    warned,         \* advisories raised with warn()
    fn,             \* the function applied last (normalizer, codec, timecode specifications)
    res,            \* its result
    clip,           \* the clip: [num_frames, fps, durations]
    timecodes_file, \* the timecodes file: None or the milliseconds of its lines
    cache,          \* the lru_cache of each clip_to_timecodes: clip -> table
    walks           \* how many times clip.frames() was walked

vars == <<pc, op, disk, log, result, ranges, streams, outfile, combine, partials,
          clipped, num_frames, trims, starts, ends, temp_filelist, debug_dict,
          env, warned, fn, res, clip, timecodes_file, cache, walks>>

(***************************************************************************)
(* Bounds.                                                                 *)
(***************************************************************************)
\* Clips of the normalizer specification have 1..MaxFrames frames; raw
\* indices range over -(MaxFrames+1)..(MaxFrames+1), so that an index can
\* exceed every clip length.
MaxFrames == 3

(***************************************************************************)
(* Python helpers.                                                         *)
(***************************************************************************)
None == <<>>

Some(v) == <<v>>

\* (i or 0): None and 0 both give 0.
OrZero(i) == IF i = None THEN 0 ELSE i[1]

Abs(x) == IF x < 0 THEN -x ELSE x

SeqAll(s, P(_)) == \A i \in 1..Len(s) : P(s[i])

SeqMap(s, F(_)) == [i \in 1..Len(s) |-> F(s[i])]

Unbound == "<unbound>"

(***************************************************************************)
(* Errors, named by the message the source raises them with.               *)
(***************************************************************************)
ErrEndZero == "ValueError: eztrim: slices cannot end with 0"

ErrOutOfBoundsSingle == "ValueError: _negative_to_positive: is out of bounds"

ErrOutOfBoundsList == "ValueError: _negative_to_positive: one or more trims are out of bounds"

ErrSameLength == "ValueError: _negative_to_positive: lists must be same length"

ErrNotLogicalSingle == "ValueError: eztrim: the trim is not logical"

ErrNotLogicalList == "ValueError: eztrim: the trims are not logical"

ErrStartLater == "ValueError: frames_to_timecodes: start frame is later than end frame"

ErrIndex == "IndexError: list index out of range"

WarnOverlap == "Warning: _check_ordered: one or more trims will cause overlapping"

WarnListOfOne == "SyntaxWarning: eztrim: using a list of one 2-tuple is not recommended"

WarnNoTrimming == "UserWarning: eztrim: None, None slice will cause no trimming, quitting early"


(***************************************************************************)
(* _negative_to_positive, acsuite/__init__.py.                             *)
(***************************************************************************)
\* The single-trim branch: a and b are Optional[int].
_negative_to_positive_single(n, a, b) ==
    LET ra == OrZero(a)
        rb == OrZero(b)
    IN  IF Abs(ra) > n \/ Abs(rb) > n
        THEN [kind |-> "raise", err |-> ErrOutOfBoundsSingle, a |-> 0, b |-> 0]
        ELSE [kind |-> "ok", err |-> "",
              a |-> IF ra >= 0 THEN ra ELSE n + ra,
              b |-> IF rb > 0 THEN rb ELSE n + rb]

\* The list branch with the end test of the start (>= 0 for > 0): an omitted
\* end stays 0.
Mutant_negative_to_positive_list(n, a, b) ==
    IF Len(a) # Len(b)
    THEN [kind |-> "raise", err |-> ErrSameLength, a |-> <<>>, b |-> <<>>]
    ELSE
    LET real_a == SeqMap(a, OrZero)
        real_b == SeqMap(b, OrZero)
        InBounds(i) == Abs(i) <= n
        PosA(x) == IF x >= 0 THEN x ELSE n + x
        PosB(y) == IF y >= 0 THEN y ELSE n + y
    IN  IF ~(SeqAll(real_a, InBounds) /\ SeqAll(real_b, InBounds))
        THEN [kind |-> "raise", err |-> ErrOutOfBoundsList, a |-> <<>>, b |-> <<>>]
        ELSE [kind |-> "ok", err |-> "",
              a |-> SeqMap(real_a, PosA), b |-> SeqMap(real_b, PosB)]

\* The list branch: a and b are lists of Optional[int].
_negative_to_positive_list(n, a, b) ==
    IF Len(a) # Len(b)
    THEN [kind |-> "raise", err |-> ErrSameLength, a |-> <<>>, b |-> <<>>]
    ELSE
    LET real_a == SeqMap(a, OrZero)
        real_b == SeqMap(b, OrZero)
        InBounds(i) == Abs(i) <= n
        NonNeg(i) == i >= 0
        Pos(i) == i > 0
        PosA(x) == IF x >= 0 THEN x ELSE n + x
        PosB(y) == IF y > 0 THEN y ELSE n + y
    IN  IF ~(SeqAll(real_a, InBounds) /\ SeqAll(real_b, InBounds))
        THEN [kind |-> "raise", err |-> ErrOutOfBoundsList, a |-> <<>>, b |-> <<>>]
        ELSE IF SeqAll(real_a, NonNeg) /\ SeqAll(real_b, Pos)
        THEN [kind |-> "ok", err |-> "", a |-> real_a, b |-> real_b]
        ELSE [kind |-> "ok", err |-> "",
              a |-> SeqMap(real_a, PosA), b |-> SeqMap(real_b, PosB)]

(***************************************************************************)
(* _check_ordered, acsuite/__init__.py: the verdict and whether it warned. *)
(***************************************************************************)
\* _check_ordered with the overlap test off by one (<= for <).
Mutant_check_ordered(ss, es) ==
    IF ~(\A i \in 1..Len(ss) : ss[i] < es[i])
    THEN [ordered |-> FALSE, warn |-> FALSE]
    ELSE [ordered |-> TRUE,
          warn |-> ~(\A i \in 1..(Len(ss) - 1) : es[i] <= ss[i + 1])]

_check_ordered(ss, es) ==
    IF ~(\A i \in 1..Len(ss) : ss[i] < es[i])
    THEN [ordered |-> FALSE, warn |-> FALSE]
    ELSE [ordered |-> TRUE,
          warn |-> ~(\A i \in 1..(Len(ss) - 1) : es[i] < ss[i + 1])]

(***************************************************************************)
(* eztrim, acsuite/__init__.py: the checks of the trims argument, and the  *)
(* resolution of the trims to frame ranges.                                *)
(***************************************************************************)
EndsWithZero(t) == t[2] = Some(0)

\* Lines 154-184.  kind "ok": trims (a list of one tuple unwrapped to the
\* tuple) go on to resolution; "return": eztrim returns early; "raise".
eztrim_check_trims(t) ==
    IF t.form = "list" /\ Len(t.items) = 1
    THEN IF EndsWithZero(t.items[1])
         THEN [kind |-> "raise", err |-> ErrEndZero, trims |-> t,
               warns |-> {WarnListOfOne}]
         ELSE IF t.items[1] = <<None, None>>
         THEN [kind |-> "return", err |-> "", trims |-> t,
               warns |-> {WarnListOfOne, WarnNoTrimming}]
         ELSE [kind |-> "ok", err |-> "",
               trims |-> [form |-> "tuple", items |-> t.items],
               warns |-> {WarnListOfOne}]
    ELSE IF t.form = "list"
    THEN IF \E i \in 1..Len(t.items) : EndsWithZero(t.items[i])
         THEN [kind |-> "raise", err |-> ErrEndZero, trims |-> t, warns |-> {}]
         ELSE [kind |-> "ok", err |-> "", trims |-> t, warns |-> {}]
    ELSE [kind |-> "ok", err |-> "", trims |-> t, warns |-> {}]

First(t) == t[1]

Second(t) == t[2]

\* Lines 193-196 (a tuple) and 206-208 (a list): kind "single" or "multi"
\* with the resolved starts and ends, or "raise".
eztrim_resolve(n, t) ==
    IF t.form = "tuple"
    THEN LET r == _negative_to_positive_single(n, t.items[1][1], t.items[1][2])
         IN  IF r.kind = "raise"
             THEN [kind |-> "raise", err |-> r.err, starts |-> <<>>, ends |-> <<>>,
                   warns |-> {}]
             ELSE IF r.b <= r.a
             THEN [kind |-> "raise", err |-> ErrNotLogicalSingle, starts |-> <<>>,
                   ends |-> <<>>, warns |-> {}]
             ELSE [kind |-> "single", err |-> "", starts |-> <<r.a>>,
                   ends |-> <<r.b>>, warns |-> {}]
    ELSE LET r == _negative_to_positive_list(n, SeqMap(t.items, First),
                                             SeqMap(t.items, Second))
         IN  IF r.kind = "raise"
             THEN [kind |-> "raise", err |-> r.err, starts |-> <<>>, ends |-> <<>>,
                   warns |-> {}]
             ELSE LET c == _check_ordered(r.a, r.b)
                      w == IF c.warn THEN {WarnOverlap} ELSE {}
                  IN  IF ~c.ordered
                      THEN [kind |-> "raise", err |-> ErrNotLogicalList,
                            starts |-> <<>>, ends |-> <<>>, warns |-> w]
                      ELSE [kind |-> "multi", err |-> "", starts |-> r.a,
                            ends |-> r.b, warns |-> w]

\* Lines 154-208 together: what eztrim makes of its trims argument.
eztrim_trims(n, t) ==
    LET c == eztrim_check_trims(t)
    IN  IF c.kind # "ok"
        THEN [kind |-> c.kind, err |-> c.err, starts |-> <<>>, ends |-> <<>>,
              warns |-> c.warns]
        ELSE LET r == eztrim_resolve(n, c.trims)
             IN  [r EXCEPT !.warns = c.warns \cup r.warns]

(***************************************************************************)
(* frames_to_timecodes, acsuite/timecode.py.                               *)
(***************************************************************************)
\* timecodes[i] of a Python list: a negative i counts from the end.
PyInRange(s, i) == -Len(s) <= i /\ i < Len(s)

PyGet(s, i) == IF i >= 0 THEN s[i + 1] ELSE s[Len(s) + i + 1]

\* One pass of the loop with the order test relaxed (> for >=): an empty
\* range is accepted.
Mutant_frames_to_timecodes_range(r, timecodes) ==
    LET n == Len(timecodes) - 1
        s0 == IF r[1] = None THEN 0 ELSE r[1][1]
        start == IF s0 < 0 THEN s0 + n ELSE s0
        e0 == IF r[2] = None THEN n ELSE r[2][1]
        end == IF e0 <= 0 THEN e0 + n ELSE e0
    IN  IF start > end
        THEN [kind |-> "raise", err |-> ErrStartLater, frames |-> <<start, end>>,
              out |-> <<>>]
        ELSE IF ~(PyInRange(timecodes, start) /\ PyInRange(timecodes, end))
        THEN [kind |-> "raise", err |-> ErrIndex, frames |-> <<start, end>>,
              out |-> <<>>]
        ELSE [kind |-> "ok", err |-> "", frames |-> <<start, end>>,
              out |-> <<PyGet(timecodes, start), PyGet(timecodes, end)>>]

\* One pass of the loop, lines 49-56: the resolved frames and the looked-up
\* timestamps of one range.
frames_to_timecodes_range(r, timecodes) ==
    LET n == Len(timecodes) - 1
        s0 == IF r[1] = None THEN 0 ELSE r[1][1]
        start == IF s0 < 0 THEN s0 + n ELSE s0
        e0 == IF r[2] = None THEN n ELSE r[2][1]
        end == IF e0 <= 0 THEN e0 + n ELSE e0
    IN  IF start >= end
        THEN [kind |-> "raise", err |-> ErrStartLater, frames |-> <<start, end>>,
              out |-> <<>>]
        ELSE IF ~(PyInRange(timecodes, start) /\ PyInRange(timecodes, end))
        THEN [kind |-> "raise", err |-> ErrIndex, frames |-> <<start, end>>,
              out |-> <<>>]
        ELSE [kind |-> "ok", err |-> "", frames |-> <<start, end>>,
              out |-> <<PyGet(timecodes, start), PyGet(timecodes, end)>>]

GetFrames(x) == x.frames

GetOut(x) == x.out

\* Lines 44-58: the loop stops at the first range that raises.
frames_to_timecodes(rs, timecodes) ==
    LET each == [i \in 1..Len(rs.items) |->
                    frames_to_timecodes_range(rs.items[i], timecodes)]
        bad == {i \in 1..Len(rs.items) : each[i].kind = "raise"}
    IN  IF bad # {}
        THEN LET i == CHOOSE j \in bad : \A k \in bad : j <= k
             IN  [kind |-> "raise", err |-> each[i].err, frames |-> <<>>, out |-> <<>>]
        ELSE [kind |-> "ok", err |-> "", frames |-> SeqMap(each, GetFrames),
              out |-> SeqMap(each, GetOut)]

(***************************************************************************)
(* Files.  A path is what a template gives once its placeholders are       *)
(* filled: the template's text, the value put for {filename} and the value *)
(* put for {index} (NoName, NoStream where the template has no such        *)
(* placeholder).  The file system maps each existing path to "old" (there  *)
(* before the operation), "new" (written by the operation) or "partial"    *)
(* (left by an ffmpeg process that failed).                                *)
(***************************************************************************)
NoName == [kind |-> "", n |-> 0]

\* The filename argument of recut.
SourceName == [kind |-> "source", n |-> 0]

\* get_temp_filename, acsuite/ffmpeg.py: the k-th name drawn by a call.
TempName(k) == [kind |-> "_acsuite_temp_", n |-> k]

NoCodec == [name |-> "", can_encode |-> FALSE, compression_type |-> ""]

NoStream == [codec |-> NoCodec, depth |-> 0, stream_index |-> -1]

Format(t, filename, index) ==
    [text |-> t.text,
     filename |-> IF t.hasFilename THEN filename ELSE NoName,
     index |-> IF t.hasIndex THEN index ELSE NoStream]

\* The value of a path variable that was never assigned.
UnboundPath == [text |-> "<unbound>", filename |-> NoName, index |-> NoStream]

\* The file a temporary name names.
TempPath(k) == [text |-> "", filename |-> TempName(k), index |-> NoStream]

\* The name a path is known by when it is put for {filename}.
NameOf(p) == p.filename

IsFile(d, p) == p \in DOMAIN d

Write(d, p, tag) == [q \in (DOMAIN d) \cup {p} |-> IF q = p THEN tag ELSE d[q]]

Remove(d, p) == [q \in (DOMAIN d) \ {p} |-> d[q]]

RemoveAll(d, ps) == [q \in (DOMAIN d) \ ps |-> d[q]]

Range(s) == {s[i] : i \in 1..Len(s)}

MinLen(a, b) == IF Len(a) < Len(b) THEN Len(a) ELSE Len(b)

(***************************************************************************)
(* FFmpegAudio, acsuite/ffmpeg.py.                                         *)
(***************************************************************************)
ErrInvalidClipRange == "ValueError: Invalid clip range"

ErrUnsupportedCodec == "ValueError: Unsupported codec in stream selected!"

ErrCouldNotClip == "ValueError: Could not clip! Does it exist and is it a media container?"

ErrCouldNotConcat == "ValueError: Could not concatenate!"

ErrCouldNotProbe == "ValueError: Could not probe! Does it exist and is it a media container?"

ErrImproperNumber == "ValueError: Improper number of output filenames supplied!"

ErrNoIndexSpecifier == "ValueError: Output filename does not have an index format specifier!"

ErrTooManyOutputs == "ValueError: Received too many output filenames!"

ErrIndexWithCombine == "ValueError: Found an index format specifier in output filename, but 'combine' is True!"

ErrCalledProcess == "CalledProcessError: ffmpeg returned non-zero exit status"

ErrRename == "OSError: rename"

ErrUnboundClipped == "UnboundLocalError: cannot access local variable 'clipped'"

\* The position of the first stream without a codec, Len(ss) + 1 if none.
FirstUnsupported(ss) ==
    LET bad == {i \in 1..Len(ss) : ss[i].codec = NoCodec}
    IN  IF bad = {} THEN Len(ss) + 1 ELSE CHOOSE i \in bad : \A j \in bad : i <= j

\* The logger call of copy_or_decode for one stream: none for a copy, a
\* warning for a lossy or potentially lossy codec, an info otherwise.
Advisory(st) ==
    IF st.codec.can_encode THEN "none"
    ELSE IF st.codec.compression_type \in {"LOSSY", "EITHER"} THEN "warning"
    ELSE "info"

\* copy_or_decode with the compression class deciding the directive: a
\* lossy codec is decoded although it can be encoded.
Mutant_copy_or_decode(ss) ==
    LET Best(st) == IF st.depth \in {8, 16, 24, 32, 64}
                    THEN <<"pcm_s", st.depth, "le">>
                    ELSE <<"pcm_s", 16, "le">>
        Arg(i) == <<i - 1, IF ss[i].codec.can_encode
                              /\ ss[i].codec.compression_type # "LOSSY"
                           THEN <<"copy">> ELSE Best(ss[i])>>
    IN  IF \E i \in 1..Len(ss) : ss[i].codec = NoCodec
        THEN [kind |-> "raise", err |-> ErrUnsupportedCodec, ac |-> <<>>,
              advisories |-> [i \in 1..(FirstUnsupported(ss) - 1) |-> Advisory(ss[i])]]
        ELSE [kind |-> "ok", err |-> "", ac |-> [i \in 1..Len(ss) |-> Arg(i)],
              advisories |-> [i \in 1..Len(ss) |-> Advisory(ss[i])]]

\* copy_or_decode: the -c:a:<i> arguments (position i - 1 counted from 0,
\* then "copy" or the pcm format), or the error of the first stream
\* without a codec; advisories holds the logger calls made on the way.
copy_or_decode(ss) ==
    LET Best(st) == IF st.depth \in {8, 16, 24, 32, 64}
                    THEN <<"pcm_s", st.depth, "le">>
                    ELSE <<"pcm_s", 16, "le">>
        Arg(i) == <<i - 1, IF ss[i].codec.can_encode THEN <<"copy">> ELSE Best(ss[i])>>
    IN  IF \E i \in 1..Len(ss) : ss[i].codec = NoCodec
        THEN [kind |-> "raise", err |-> ErrUnsupportedCodec, ac |-> <<>>,
              advisories |-> [i \in 1..(FirstUnsupported(ss) - 1) |-> Advisory(ss[i])]]
        ELSE [kind |-> "ok", err |-> "", ac |-> [i \in 1..Len(ss) |-> Arg(i)],
              advisories |-> [i \in 1..Len(ss) |-> Advisory(ss[i])]]

\* map_streams: the output path mapped to each stream, or the error.
map_streams(ss, output, filename, comb) ==
    IF ~comb
    THEN IF Len(ss) > 1 /\ Len(output) > 1 /\ Len(ss) # Len(output)
         THEN [kind |-> "raise", err |-> ErrImproperNumber, maps |-> <<>>]
         ELSE IF Len(ss) > 1 /\ Len(ss) # Len(output) /\ ~output[1].hasIndex
         THEN [kind |-> "raise", err |-> ErrNoIndexSpecifier, maps |-> <<>>]
         ELSE LET out == IF Len(ss) > 1 /\ Len(output) = 1
                         THEN [i \in 1..Len(ss) |-> output[1]]
                         ELSE output
              IN  [kind |-> "ok", err |-> "",
                   maps |-> [i \in 1..MinLen(out, ss) |->
                                [stream |-> ss[i].stream_index,
                                 path |-> Format(out[i], filename, ss[i])]]]
    ELSE IF Len(output) > 1
         THEN [kind |-> "raise", err |-> ErrTooManyOutputs, maps |-> <<>>]
         ELSE IF output[1].hasIndex
         THEN [kind |-> "raise", err |-> ErrIndexWithCombine, maps |-> <<>>]
         ELSE [kind |-> "ok", err |-> "",
               maps |-> [i \in 1..Len(ss) |->
                            [stream |-> ss[i].stream_index,
                             path |-> Format(output[1], filename, NoStream)]]]

\* get_audio_streams on a file ffmpeg wrote: ffprobe reports the streams
\* mapped into it, numbered from 0 in the new container.
get_audio_streams(ss) == [i \in 1..Len(ss) |-> [ss[i] EXCEPT !.stream_index = i - 1]]

NoResult == [kind |-> "none", err |-> "", value |-> <<>>]

Pending(e) == [kind |-> "pending", err |-> e, value |-> <<>>]

Invocation(cmd, range, files) == [cmd |-> cmd, range |-> range, files |-> files]

(***************************************************************************)
(* The pipeline specification: one operation runs from "idle" to "done".   *)
(* Every external process is a blocking call that either exits with        *)
(* status 0, having written its outputs, or exits with another status,     *)
(* having written them or not.                                             *)
(***************************************************************************)
\* Lists of at most MaxRanges time ranges are passed to recut.
MaxRanges == 3

\* At most MaxStreams audio streams are selected.
MaxStreams == 2

Flac == [name |-> "flac", can_encode |-> TRUE, compression_type |-> "LOSSLESS"]

\* A stream with a codec and one without (codec None), at the container
\* index given: audio streams follow the video stream 0.
StreamInputs(i) ==
    {[codec |-> Flac, depth |-> 16, stream_index |-> i],
     [codec |-> NoCodec, depth |-> 16, stream_index |-> i]}

StreamLists ==
    UNION {{ss \in [1..k -> UNION {StreamInputs(i) : i \in 1..k}] :
               \A i \in 1..k : ss[i].stream_index = i} : k \in 1..MaxStreams}

\* Valid ranges, a range that ends before it starts, a range that starts
\* before 0.
RangeInputs == {<<0, 1>>, <<1, 2>>, <<2, 1>>, <<-1, 1>>}

RangeLists == UNION {[1..k -> RangeInputs] : k \in 0..MaxRanges}

\* Output templates: one template with or without each placeholder, or two.
Template(text, f, i) == [text |-> text, hasFilename |-> f, hasIndex |-> i]

OutfileInputs ==
    {<<Template("out", f, i)>> : f \in BOOLEAN, i \in BOOLEAN}
    \cup {<<Template("out", f, i), Template("out2", FALSE, FALSE)>> :
             f \in BOOLEAN, i \in BOOLEAN}

recutLocals == <<ranges, streams, outfile, combine, partials, clipped>>

eztrimLocals == <<num_frames, trims, starts, ends, temp_filelist, debug_dict, env>>

timecodeVars == <<clip, timecodes_file, cache, walks>>

trimVars == <<fn, res, timecodeVars>>

\* recut, lines 326-328: the arguments are bound, partials is empty.
RecutCall ==
    /\ pc = "idle"
    /\ \E r \in RangeLists, ss \in StreamLists, o \in OutfileInputs, c \in BOOLEAN :
          /\ ranges' = r
          /\ streams' = ss
          /\ outfile' = o
          /\ combine' = c
    /\ op' = "recut"
    /\ partials' = <<>>
    /\ clipped' = UnboundPath
    /\ pc' = "clip"
    /\ UNCHANGED <<disk, log, result, eztrimLocals, warned, trimVars>>

\* clip_single without the os.remove of its except block: a failed run
\* leaves what it wrote.
Mutant_clip_single(exit) ==
    LET r == ranges[Len(partials) + 1]
        out == TempPath(Len(partials) + 1)
    IN  IF r[1] >= r[2] \/ r[1] < 0
        THEN /\ result' = Pending(ErrInvalidClipRange)
             /\ pc' = "finally"
             /\ UNCHANGED <<disk, log, partials>>
        ELSE IF copy_or_decode(streams).kind = "raise"
        THEN /\ result' = Pending(copy_or_decode(streams).err)
             /\ pc' = "finally"
             /\ UNCHANGED <<disk, log, partials>>
        ELSE /\ log' = Append(log, Invocation("extract", r, <<out>>))
             /\ IF exit = "ok"
                THEN /\ disk' = Write(disk, out, "new")
                     /\ partials' = Append(partials, out)
                     /\ UNCHANGED <<pc, result>>
                ELSE /\ disk' = Write(disk, out, "partial")
                     /\ result' = Pending(ErrCouldNotClip)
                     /\ pc' = "finally"
                     /\ UNCHANGED partials

\* clip_single as the loop of recut calls it (lines 334-335, 235-247): the
\* next range is checked, a temporary name drawn, the codec arguments
\* resolved, and ffmpeg run; a failed run removes its output.
clip_single(exit) ==
    LET r == ranges[Len(partials) + 1]
        out == TempPath(Len(partials) + 1)
    IN  IF r[1] >= r[2] \/ r[1] < 0
        THEN /\ result' = Pending(ErrInvalidClipRange)
             /\ pc' = "finally"
             /\ UNCHANGED <<disk, log, partials>>
        ELSE IF copy_or_decode(streams).kind = "raise"
        THEN /\ result' = Pending(copy_or_decode(streams).err)
             /\ pc' = "finally"
             /\ UNCHANGED <<disk, log, partials>>
        ELSE /\ log' = Append(log, Invocation("extract", r, <<out>>))
             /\ IF exit = "ok"
                THEN /\ disk' = Write(disk, out, "new")
                     /\ partials' = Append(partials, out)
                     /\ UNCHANGED <<pc, result>>
                ELSE /\ disk' = Remove(disk, out)
                     /\ result' = Pending(ErrCouldNotClip)
                     /\ pc' = "finally"
                     /\ UNCHANGED partials

RecutClip ==
    /\ pc = "clip"
    /\ Len(partials) < Len(ranges)
    /\ \E exit \in {"ok", "failed"} : clip_single(exit)
    /\ UNCHANGED <<op, ranges, streams, outfile, combine, clipped, eztrimLocals,
                   warned, trimVars>>

\* FFmpegAudio.concat writing its manifest last segment first.
Mutant_concat_files(exit) ==
    LET cf == TempPath(Len(partials) + 1)
        out == TempPath(Len(partials) + 2)
    IN  /\ log' = Append(log, Invocation("concat", <<>>,
                              [i \in 1..Len(partials) |-> partials[Len(partials) + 1 - i]]))
        /\ IF exit = "ok"
           THEN /\ disk' = Remove(Write(Write(disk, cf, "new"), out, "new"), cf)
                /\ clipped' = out
                /\ pc' = "finish"
                /\ UNCHANGED result
           ELSE /\ disk' = Remove(Remove(Write(disk, cf, "new"), cf), out)
                /\ result' = Pending(ErrCouldNotConcat)
                /\ pc' = "finally"
                /\ UNCHANGED clipped

\* FFmpegAudio.concat (lines 257-273): the manifest is written, ffmpeg run,
\* the manifest removed; a failed run removes its output too.
concat_files(exit) ==
    LET cf == TempPath(Len(partials) + 1)
        out == TempPath(Len(partials) + 2)
    IN  /\ log' = Append(log, Invocation("concat", <<>>, partials))
        /\ IF exit = "ok"
           THEN /\ disk' = Remove(Write(Write(disk, cf, "new"), out, "new"), cf)
                /\ clipped' = out
                /\ pc' = "finish"
                /\ UNCHANGED result
           ELSE /\ disk' = Remove(Remove(Write(disk, cf, "new"), cf), out)
                /\ result' = Pending(ErrCouldNotConcat)
                /\ pc' = "finally"
                /\ UNCHANGED clipped

\* recut, line 338: the segments are concatenated if there are several.
RecutConcat ==
    /\ pc = "clip"
    /\ Len(partials) = Len(ranges)
    /\ IF Len(ranges) > 1
       THEN \E exit \in {"ok", "failed"} : concat_files(exit)
       ELSE IF Len(partials) = 0
       THEN /\ result' = Pending(ErrIndex)
            /\ pc' = "finally"
            /\ UNCHANGED <<disk, log, clipped>>
       ELSE /\ clipped' = partials[1]
            /\ pc' = "finish"
            /\ UNCHANGED <<disk, log, result>>
    /\ UNCHANGED <<op, ranges, streams, outfile, combine, partials, eztrimLocals,
                   warned, trimVars>>

\* recut, lines 341-344, and split: ffprobe lists the streams of the merged
\* file, map_streams maps them to the outputs, ffmpeg writes them.  A failed
\* ffmpeg run leaves any of its outputs behind.
RecutSplit ==
    /\ pc = "finish"
    /\ ~combine /\ Len(streams) > 1
    /\ \E probe \in {"ok", "failed"}, exit \in {"ok", "failed"} :
       \E left \in SUBSET (1..Len(streams)) :
          LET probed == get_audio_streams(streams)
              m == map_streams(probed, outfile, NameOf(clipped), FALSE)
              paths == [i \in 1..Len(m.maps) |-> m.maps[i].path]
          IN  IF probe = "failed"
              THEN /\ exit = "ok" /\ left = {}
                   /\ log' = Append(log, Invocation("probe", <<>>, <<clipped>>))
                   /\ result' = Pending(ErrCouldNotProbe)
                   /\ UNCHANGED <<disk, outfile>>
              ELSE IF m.kind = "raise"
              THEN /\ exit = "ok" /\ left = {}
                   /\ log' = Append(log, Invocation("probe", <<>>, <<clipped>>))
                   /\ result' = Pending(m.err)
                   /\ UNCHANGED <<disk, outfile>>
              ELSE /\ log' = log \o <<Invocation("probe", <<>>, <<clipped>>),
                                      Invocation("demux", <<>>, paths)>>
                   /\ IF exit = "ok"
                      THEN /\ left = {}
                           /\ disk' = [q \in (DOMAIN disk) \cup Range(paths) |->
                                          IF q \in Range(paths) THEN "new" ELSE disk[q]]
                           /\ outfile' = IF Len(outfile) # Len(streams)
                                         THEN [i \in 1..Len(streams) |-> outfile[1]]
                                         ELSE outfile
                           /\ UNCHANGED result
                      ELSE /\ disk' = [q \in (DOMAIN disk) \cup {paths[i] : i \in left} |->
                                          IF q \in {paths[i] : i \in left}
                                          THEN "partial" ELSE disk[q]]
                           /\ result' = Pending(ErrCalledProcess)
                           /\ UNCHANGED outfile
    /\ pc' = "finally"
    /\ UNCHANGED <<op, ranges, streams, combine, partials, clipped, eztrimLocals,
                   warned, trimVars>>

\* recut, lines 345-350: the output arguments are checked and the merged
\* file renamed to the output path (os.rename replaces an existing file).
RecutRename ==
    /\ pc = "finish"
    /\ ~(~combine /\ Len(streams) > 1)
    /\ \E renamed \in BOOLEAN :
          LET dest == Format(outfile[1], SourceName, NoStream)
          IN  IF Len(outfile) > 1
              THEN /\ renamed
                   /\ result' = Pending(ErrTooManyOutputs)
                   /\ UNCHANGED disk
              ELSE IF outfile[1].hasIndex
              THEN /\ renamed
                   /\ result' = Pending(ErrIndexWithCombine)
                   /\ UNCHANGED disk
              ELSE IF renamed
              THEN /\ disk' = Write(Remove(disk, clipped), dest, "new")
                   /\ UNCHANGED result
              ELSE /\ result' = Pending(ErrRename)
                   /\ UNCHANGED disk
    /\ pc' = "finally"
    /\ UNCHANGED <<op, log, ranges, streams, outfile, combine, partials, clipped,
                   eztrimLocals, warned, trimVars>>

\* The value recut returns, line 356.
recut_value ==
    [i \in 1..MinLen(outfile, streams) |-> Format(outfile[i], SourceName, streams[i])]

\* recut, lines 351-356: the finally block removes the segments, then the
\* merged file; the pending error, if any, is raised again, else the output
\* paths are returned.  Reading clipped before it was assigned raises.
RecutFinally ==
    /\ pc = "finally"
    /\ op = "recut"
    /\ IF clipped = UnboundPath
       THEN /\ disk' = RemoveAll(disk, Range(partials))
            /\ result' = [kind |-> "raise", err |-> ErrUnboundClipped, value |-> <<>>]
       ELSE /\ disk' = RemoveAll(disk, Range(partials) \cup {clipped})
            /\ result' = IF result.kind = "pending"
                         THEN [result EXCEPT !.kind = "raise"]
                         ELSE [kind |-> "return", err |-> "", value |-> recut_value]
    /\ pc' = "done"
    /\ UNCHANGED <<op, log, recutLocals, eztrimLocals, warned, trimVars>>

(***************************************************************************)
(* eztrim and concat, acsuite/__init__.py, with debug off.  The clip is    *)
(* constant-rate, so f2ts resolves every frame of 0..num_frames.           *)
(***************************************************************************)
ErrAudioNotFound == "FileNotFoundError: audio file not found"

ErrOutfileExists == "FileExistsError: eztrim: outfile already exists"

ErrFfmpegNotFound == "FileNotFoundError: concat: ffmpeg executable not found"

ErrManifestExists == "ValueError: _acsuite_temp_concat.txt already exists, quitting"

ErrUnboundDebugDict == "UnboundLocalError: cannot access local variable 'debug_dict'"

ErrRemoveMissing == "FileNotFoundError: os.remove"

ErrTooFewFiles == "ValueError: concat: requires 2 or more audio files to concatenate"

Plain(text, k) == [text |-> text, filename |-> [kind |-> "", n |-> k], index |-> NoStream]

\* The output path eztrim and concat write to: the path of the template
\* "out", which has no placeholder.
OutPath == Plain("out", 0)

ManifestPath == Plain("_acsuite_temp_concat.txt", 0)

\* f"_acsuite_temp_output_{key}" + extension.
SegmentPath(key) == Plain("_acsuite_temp_output_", key)

\* The clips and trims handed to eztrim: clips of one and two frames, raw
\* indices None and -2..2, a bare tuple and lists of up to two tuples.
EztrimIdx == {None} \cup {Some(v) : v \in -2..2}

EztrimPairs == EztrimIdx \X EztrimIdx

EztrimArgs ==
    {[form |-> "tuple", items |-> <<t>>] : t \in EztrimPairs}
    \cup {[form |-> "list", items |-> <<>>]}
    \cup {[form |-> "list", items |-> <<t>>] : t \in EztrimPairs}
    \cup {[form |-> "list", items |-> <<t, u>>] : t \in EztrimPairs, u \in EztrimPairs}

EztrimFrames == {1, 2}

Environments == [audio_file : BOOLEAN, ffmpeg : BOOLEAN]

Returned(v) == [kind |-> "return", err |-> "", value |-> v]

Raised(e) == [kind |-> "raise", err |-> e, value |-> <<>>]

\* eztrim, lines 113-190: the file checks, then the checks of trims.
EztrimCall ==
    /\ pc = "idle"
    /\ \E n \in EztrimFrames, t \in EztrimArgs, e \in Environments :
          LET c == eztrim_check_trims(t)
          IN  /\ num_frames' = n
              /\ env' = e
              /\ IF ~e.audio_file
                 THEN /\ result' = Raised(ErrAudioNotFound)
                      /\ pc' = "done" /\ trims' = t /\ UNCHANGED warned
                 ELSE IF IsFile(disk, OutPath)
                 THEN /\ result' = Raised(ErrOutfileExists)
                      /\ pc' = "done" /\ trims' = t /\ UNCHANGED warned
                 ELSE IF ~e.ffmpeg
                 THEN /\ result' = Raised(ErrFfmpegNotFound)
                      /\ pc' = "done" /\ trims' = t /\ UNCHANGED warned
                 ELSE /\ warned' = warned \cup c.warns
                      /\ trims' = c.trims
                      /\ IF c.kind = "raise"
                         THEN result' = Raised(c.err) /\ pc' = "done"
                         ELSE IF c.kind = "return"
                         THEN result' = Returned(OutPath) /\ pc' = "done"
                         ELSE /\ pc' = IF c.trims.form = "tuple"
                                       THEN "single" ELSE "multi"
                              /\ UNCHANGED result
    /\ op' = "eztrim"
    /\ outfile' = OutPath
    /\ UNCHANGED <<disk, log, ranges, streams, combine, partials, clipped, starts,
                   ends, temp_filelist, debug_dict, trimVars>>

\* eztrim, lines 193-203: the single trim is resolved and ffmpeg run; its
\* exit status is not looked at.
EztrimSingle ==
    /\ pc = "single"
    /\ \E exit \in {"ok", "failed", "failed, output left"} :
          LET r == eztrim_resolve(num_frames, trims)
          IN  IF r.kind = "raise"
              THEN /\ exit = "ok"
                   /\ result' = Raised(r.err)
                   /\ UNCHANGED <<disk, log, starts, ends, debug_dict>>
              ELSE /\ starts' = r.starts
                   /\ ends' = r.ends
                   /\ debug_dict' = "bound"
                   /\ log' = Append(log, Invocation("extract", <<r.starts[1], r.ends[1]>>,
                                                    <<outfile>>))
                   /\ disk' = IF exit = "ok" THEN Write(disk, outfile, "new")
                              ELSE IF exit = "failed" THEN disk
                              ELSE Write(disk, outfile, "partial")
                   /\ result' = Returned(outfile)
    /\ pc' = "done"
    /\ UNCHANGED <<op, ranges, streams, outfile, combine, partials, clipped,
                   num_frames, trims, temp_filelist, env, warned, trimVars>>

\* eztrim, lines 206-215: the trims are resolved and checked, the manifest
\* opened for writing.
EztrimOpen ==
    /\ pc = "multi"
    /\ LET r == eztrim_resolve(num_frames, trims)
       IN  /\ warned' = warned \cup r.warns
           /\ IF r.kind = "raise"
              THEN /\ result' = Raised(r.err)
                   /\ pc' = "done"
                   /\ UNCHANGED <<disk, starts, ends, temp_filelist>>
              ELSE /\ starts' = r.starts
                   /\ ends' = r.ends
                   /\ IF IsFile(disk, ManifestPath)
                      THEN /\ result' = Raised(ErrManifestExists)
                           /\ pc' = "done"
                           /\ UNCHANGED <<disk, temp_filelist>>
                      ELSE /\ disk' = Write(disk, ManifestPath, "new")
                           /\ temp_filelist' = <<>>
                           /\ pc' = "loop"
                           /\ UNCHANGED result
    /\ UNCHANGED <<op, log, ranges, streams, outfile, combine, partials, clipped,
                   num_frames, trims, debug_dict, env, trimVars>>

\* eztrim, lines 216-224, one pass of the loop: the segment is named and
\* listed in the manifest, debug_dict is updated, ffmpeg is run.  debug_dict
\* is assigned on the single-trim path only (line 197).
EztrimLoop ==
    /\ pc = "loop"
    /\ Len(temp_filelist) < Len(starts)
    /\ \E exit \in {"ok", "failed", "failed, output left"} :
          LET outfile_tmp == SegmentPath(Len(temp_filelist))
          IN  /\ temp_filelist' = Append(temp_filelist, outfile_tmp)
              /\ IF debug_dict = Unbound
                 THEN /\ exit = "ok"
                      /\ result' = Raised(ErrUnboundDebugDict)
                      /\ pc' = "done"
                      /\ UNCHANGED <<disk, log>>
                 ELSE /\ log' = Append(log,
                                   Invocation("extract",
                                              <<starts[Len(temp_filelist) + 1],
                                                ends[Len(temp_filelist) + 1]>>,
                                              <<outfile_tmp>>))
                      /\ disk' = IF exit = "ok" THEN Write(disk, outfile_tmp, "new")
                                 ELSE IF exit = "failed" THEN disk
                                 ELSE Write(disk, outfile_tmp, "partial")
                      /\ UNCHANGED <<pc, result>>
    /\ UNCHANGED <<op, ranges, streams, outfile, combine, partials, clipped,
                   num_frames, trims, starts, ends, debug_dict, env, warned, trimVars>>

\* Removing files in order with os.remove: the files left, and whether a
\* file was missing (os.remove raises and the rest stay).
RECURSIVE RemoveInOrder(_, _)
RemoveInOrder(d, files) ==
    IF files = <<>>
    THEN [disk |-> d, ok |-> TRUE]
    ELSE IF ~IsFile(d, Head(files))
    THEN [disk |-> d, ok |-> FALSE]
    ELSE RemoveInOrder(Remove(d, Head(files)), Tail(files))

\* eztrim, lines 226-234: the manifest is closed, ffmpeg concatenates, the
\* manifest and the segments are removed.
EztrimConcat ==
    /\ pc = "loop"
    /\ Len(temp_filelist) = Len(starts)
    /\ \E exit \in {"ok", "failed", "failed, output left"} :
          LET ran == IF exit = "ok" THEN Write(disk, outfile, "new")
                     ELSE IF exit = "failed" THEN disk
                     ELSE Write(disk, outfile, "partial")
              rm == RemoveInOrder(ran, <<ManifestPath>> \o temp_filelist)
          IN  /\ log' = Append(log, Invocation("concat", <<>>, temp_filelist))
              /\ disk' = rm.disk
              /\ result' = IF rm.ok THEN Returned(outfile) ELSE Raised(ErrRemoveMissing)
    /\ pc' = "done"
    /\ UNCHANGED <<op, ranges, streams, outfile, combine, partials, clipped,
                   num_frames, trims, starts, ends, temp_filelist, debug_dict, env,
                   warned, trimVars>>

\* The audio files handed to concat: one to three files.
AudioFileLists == {[i \in 1..k |-> Plain("audio_file", i)] : k \in 1..3}

\* concat, lines 380-412: the checks, then the manifest is written.  The
\* list of audio files is kept in temp_filelist.
ConcatCall ==
    /\ pc = "idle"
    /\ \E fs \in AudioFileLists, e \in Environments :
          /\ env' = e
          /\ temp_filelist' = fs
          /\ IF ~e.ffmpeg
             THEN result' = Raised(ErrFfmpegNotFound) /\ pc' = "done" /\ UNCHANGED disk
             ELSE IF Len(fs) < 2
             THEN result' = Raised(ErrTooFewFiles) /\ pc' = "done" /\ UNCHANGED disk
             ELSE IF ~e.audio_file
             THEN result' = Raised(ErrAudioNotFound) /\ pc' = "done" /\ UNCHANGED disk
             ELSE IF IsFile(disk, OutPath)
             THEN result' = Raised(ErrOutfileExists) /\ pc' = "done" /\ UNCHANGED disk
             ELSE IF IsFile(disk, ManifestPath)
             THEN result' = Raised(ErrManifestExists) /\ pc' = "done" /\ UNCHANGED disk
             ELSE /\ disk' = Write(disk, ManifestPath, "new")
                  /\ pc' = "run"
                  /\ UNCHANGED result
    /\ op' = "concat"
    /\ outfile' = OutPath
    /\ UNCHANGED <<log, ranges, streams, combine, partials, clipped, num_frames,
                   trims, starts, ends, debug_dict, warned, trimVars>>

\* concat, lines 413-416: ffmpeg is run, its exit status not looked at, and
\* the manifest removed.
ConcatRun ==
    /\ pc = "run"
    /\ \E exit \in {"ok", "failed", "failed, output left"} :
          LET ran == IF exit = "ok" THEN Write(disk, outfile, "new")
                     ELSE IF exit = "failed" THEN disk
                     ELSE Write(disk, outfile, "partial")
          IN  /\ log' = Append(log, Invocation("concat", <<>>, temp_filelist))
              /\ disk' = Remove(ran, ManifestPath)
              /\ result' = Returned(<<>>)
    /\ pc' = "done"
    /\ UNCHANGED <<op, ranges, streams, outfile, combine, partials, clipped,
                   num_frames, trims, starts, ends, temp_filelist, debug_dict, env,
                   warned, trimVars>>

(***************************************************************************)
(* The pipeline specification.  Before the operation at most one of the    *)
(* paths it may write to exists already.                                   *)
(***************************************************************************)
PreExisting == {OutPath, ManifestPath}

\* No clip is loaded and nothing is cached.
TimecodesAtRest ==
    /\ clip = <<>> /\ timecodes_file = <<>>
    /\ cache = [init |-> <<>>, timecode |-> <<>>]
    /\ walks = 0

Init ==
    /\ pc = "idle" /\ op = "none" /\ log = <<>>
    /\ \E pre \in {{}} \cup {{p} : p \in PreExisting} : disk = [p \in pre |-> "old"]
    /\ result = NoResult
    /\ ranges = <<>> /\ streams = <<>> /\ outfile = <<>> /\ combine = TRUE
    /\ partials = <<>> /\ clipped = UnboundPath
    /\ num_frames = 0 /\ trims = [form |-> "list", items |-> <<>>]
    /\ starts = <<>> /\ ends = <<>>
    /\ temp_filelist = <<>> /\ debug_dict = Unbound
    /\ env = <<>> /\ warned = {}
    /\ fn = "none" /\ res = <<>>
    /\ TimecodesAtRest

Next ==
    \/ RecutCall
    \/ RecutClip
    \/ RecutConcat
    \/ RecutSplit
    \/ RecutRename
    \/ RecutFinally
    \/ EztrimCall
    \/ EztrimSingle
    \/ EztrimOpen
    \/ EztrimLoop
    \/ EztrimConcat
    \/ ConcatCall
    \/ ConcatRun

Spec == Init /\ [][Next]_vars

(***************************************************************************)
(* The normalizer specification: an input (a clip length and a trims       *)
(* argument) is drawn, and one of the functions above is applied to it.    *)
(***************************************************************************)
Idx == {None} \cup {Some(v) : v \in -(MaxFrames + 1)..(MaxFrames + 1)}

TrimPairs == Idx \X Idx

\* A bare tuple, and the lists of zero, one and two tuples.
TrimArgs ==
    {[form |-> "tuple", items |-> <<t>>] : t \in TrimPairs}
    \cup {[form |-> "list", items |-> <<>>]}
    \cup {[form |-> "list", items |-> <<t>>] : t \in TrimPairs}
    \cup {[form |-> "list", items |-> <<t, u>>] : t \in TrimPairs, u \in TrimPairs}

\* The 100-frame clip and the trims of eztrim's docstring.
ScenarioFrames == 100

ScenarioTrims ==
    [form |-> "list",
     items |-> << <<Some(3), Some(22)>>, <<Some(23), Some(40)>>,
                  <<Some(48), Some(49)>>, <<Some(50), Some(-20)>>,
                  <<Some(-10), Some(-5)>>, <<Some(97), None>> >>]

\* The 10-frame clip trimmed to its last frame.
LastFrameInput == [n |-> 10, t |-> [form |-> "tuple", items |-> << <<Some(-1), None>> >>]]

TrimInputs ==
    {[n |-> n, t |-> t] : n \in 1..MaxFrames, t \in TrimArgs}
    \cup {[n |-> ScenarioFrames, t |-> ScenarioTrims], LastFrameInput}

\* The timecode table handed to frames_to_timecodes: n + 1 entries, the
\* table of a 25 fps clip in milliseconds.
InputTable(n) == [i \in 1..(n + 1) |-> (i - 1) * 40]

\* The pipeline variables, at rest.
PipelineAtRest ==
    /\ pc = "idle" /\ op = "none" /\ disk = <<>> /\ log = <<>>
    /\ result = NoResult
    /\ ranges = <<>> /\ streams = <<>> /\ outfile = <<>> /\ combine = TRUE
    /\ partials = <<>> /\ clipped = UnboundPath
    /\ starts = <<>> /\ ends = <<>>
    /\ temp_filelist = <<>> /\ debug_dict = Unbound
    /\ env = <<>> /\ warned = {}

pipelineVars == <<pc, op, disk, log, result, ranges, streams, outfile, combine,
                  partials, clipped, starts, ends, temp_filelist, debug_dict,
                  env, warned>>

InitTrims ==
    /\ PipelineAtRest
    /\ \E i \in TrimInputs : num_frames = i.n /\ trims = i.t
    /\ fn = "none" /\ res = <<>>
    /\ TimecodesAtRest

Apply(f, r) ==
    /\ fn = "none"
    /\ fn' = f
    /\ res' = r
    /\ UNCHANGED <<pipelineVars, num_frames, trims, timecodeVars>>

Firsts(t) == SeqMap(t.items, First)

Seconds(t) == SeqMap(t.items, Second)

Apply_eztrim_trims == Apply("eztrim_trims", eztrim_trims(num_frames, trims))

Apply_negative_to_positive_single ==
    /\ trims.form = "tuple"
    /\ Apply("_negative_to_positive_single",
             _negative_to_positive_single(num_frames, trims.items[1][1],
                                          trims.items[1][2]))

Apply_negative_to_positive_list ==
    /\ trims.form = "list"
    /\ Apply("_negative_to_positive_list",
             _negative_to_positive_list(num_frames, Firsts(trims), Seconds(trims)))

\* _check_ordered is applied to resolved trims: what the list branch returned.
Apply_check_ordered ==
    /\ trims.form = "list"
    /\ LET r == _negative_to_positive_list(num_frames, Firsts(trims), Seconds(trims))
       IN  /\ r.kind = "ok"
           /\ Apply("_check_ordered", _check_ordered(r.a, r.b))

Apply_frames_to_timecodes ==
    Apply("frames_to_timecodes", frames_to_timecodes(trims, InputTable(num_frames)))

NextTrims ==
    \/ Apply_eztrim_trims
    \/ Apply_negative_to_positive_single
    \/ Apply_negative_to_positive_list
    \/ Apply_check_ordered
    \/ Apply_frames_to_timecodes

SpecTrims == InitTrims /\ [][NextTrims]_vars

(***************************************************************************)
(* Claims about the pipelines (specification Spec).                        *)
(***************************************************************************)
\* A file named by get_temp_filename: a segment of clip_single, the
\* manifest or the merged file of FFmpegAudio.concat.
IsTempPath(p) == p.text = "" /\ p.filename.kind = "_acsuite_temp_"

IsSegmentPath(p) == p.text = "_acsuite_temp_output_"

\* Files the running operation wrote.
Written == {p \in DOMAIN disk : disk[p] # "old"}

\* The output paths the operation declares.
Destinations ==
    IF op = "recut"
    THEN {Format(outfile[1], SourceName, NoStream)} \cup Range(recut_value)
    ELSE IF op \in {"eztrim", "concat"} THEN {outfile}
    ELSE {}

\* C1: after recut, returned or raised at any step, no segment file, no
\* manifest and no merged temporary file is on disk.
C1_RecutLeavesNoTemporary ==
    (op = "recut" /\ pc = "done") => \A p \in DOMAIN disk : ~IsTempPath(p)

\* recut raised after two of three segments were extracted and the third
\* extraction had run.
C1_Witness ==
    /\ op = "recut" /\ pc = "done"
    /\ result.kind = "raise"
    /\ Len(ranges) = 3 /\ Len(partials) = 2 /\ Len(log) = 3

\* C2: after eztrim with a list of two or more trims, on every exit path,
\* the manifest and every segment file the call created are deleted.
C2_EztrimLeavesNoTemporary ==
    (op = "eztrim" /\ pc = "done" /\ trims.form = "list" /\ Len(trims.items) >= 2)
        => \A p \in Written : p # ManifestPath /\ ~IsSegmentPath(p)

\* C3: after eztrim and after recut the declared output exists, written by
\* the call, if and only if the call returned normally; a failed call
\* leaves nothing under its output path.  (The early return on a list of
\* one (None, None) trim is left out: it declares no output.)
C3_OutputIffSuccess ==
    (op \in {"eztrim", "recut"} /\ pc = "done" /\ WarnNoTrimming \notin warned)
        => /\ result.kind = "return"
                => \A p \in Destinations : IsFile(disk, p) /\ disk[p] = "new"
           /\ result.kind = "raise"
                => \A p \in Destinations : p \notin Written

\* The manifest, for the operations that write it under its fixed name.
FixedManifest ==
    IF op = "concat" \/ (op = "eztrim" /\ pc \in {"multi", "loop"})
    THEN {ManifestPath} ELSE {}

\* C4: while a destination path or the fixed manifest that was there before
\* the operation is still there, no external process has run and no file
\* has been written, and the operation ends by raising.
C4_CollisionGuard ==
    (\E p \in Destinations \cup FixedManifest : IsFile(disk, p) /\ disk[p] = "old")
        => /\ log = <<>>
           /\ Written = {}
           /\ pc = "done" => result.kind = "raise"

ValidationErrors ==
    {ErrEndZero, ErrOutOfBoundsSingle, ErrOutOfBoundsList, ErrNotLogicalSingle,
     ErrNotLogicalList, ErrInvalidClipRange, ErrUnsupportedCodec, ErrImproperNumber,
     ErrNoIndexSpecifier, ErrTooManyOutputs, ErrIndexWithCombine, ErrTooFewFiles}

\* C5: when a validation error is raised, no external process has been
\* spawned and no file has been written.
C5_ValidationBeforeEffects ==
    (result.kind \in {"pending", "raise"} /\ result.err \in ValidationErrors)
        => log = <<>> /\ Written = {}

\* C10: eztrim on the single trim (None, None), a bare tuple or a list of
\* one tuple, invokes no external process and creates no file.
C10_NoOpTrim ==
    (op = "eztrim" /\ Len(trims.items) = 1 /\ trims.items[1] = <<None, None>>)
        => log = <<>> /\ Written = {}

(***************************************************************************)
(* Claims about the normalizers (specification SpecTrims).                 *)
(***************************************************************************)
HasEndZero(t) == \E i \in 1..Len(t.items) : EndsWithZero(t.items[i])

ExceedsClip(n, t) ==
    \E i \in 1..Len(t.items) : \E k \in 1..2 :
        t.items[i][k] # None /\ Abs(t.items[i][k][1]) > n

Normalized(n, s, e) == 0 <= s /\ s < e /\ e <= n

\* What the specification says a raw start and a raw end resolve to.
ExpectedStart(n, s) == IF s = None THEN 0 ELSE IF s[1] < 0 THEN n + s[1] ELSE s[1]

ExpectedEnd(n, e) == IF e = None THEN n ELSE IF e[1] < 0 THEN n + e[1] ELSE e[1]

\* The trims the list branch of _negative_to_positive resolves the input to.
Resolved == _negative_to_positive_list(num_frames, Firsts(trims), Seconds(trims))

\* C6: a trim whose end is explicitly 0 is rejected, never resolved, by
\* eztrim (a bare tuple, a list of one tuple, a list of several) and by
\* frames_to_timecodes.
C6_EndZeroRejected ==
    (fn \in {"eztrim_trims", "frames_to_timecodes"} /\ HasEndZero(trims))
        => res.kind = "raise"

\* C7: each normalizer fails or produces 0 <= start < end <= N, and a raw
\* index whose magnitude exceeds N always fails.
C7_NormalizedOrRejected ==
    /\ (fn = "eztrim_trims" /\ res.kind \in {"single", "multi"})
          => \A i \in 1..Len(res.starts) :
                Normalized(num_frames, res.starts[i], res.ends[i])
    /\ (fn = "frames_to_timecodes" /\ res.kind = "ok")
          => \A i \in 1..Len(res.frames) :
                Normalized(num_frames, res.frames[i][1], res.frames[i][2])
    /\ (fn \in {"eztrim_trims", "frames_to_timecodes"}
        /\ ExceedsClip(num_frames, trims))
          => res.kind = "raise"

\* C8: an accepted trim resolves as specified (null start -> 0, null end ->
\* N, negative index -> N + index, other indices unchanged), in the single
\* form, in the list form and through eztrim; the list form agrees with the
\* single form element by element; (None, None) gives (0, N), (-1, None) on
\* 10 frames gives (9, 10), and the 100-frame scenario resolves as listed.
C8_NormalizationValues ==
    /\ (fn = "_negative_to_positive_single" /\ res.kind = "ok")
          => /\ res.a = ExpectedStart(num_frames, trims.items[1][1])
             /\ ~EndsWithZero(trims.items[1])
                   => res.b = ExpectedEnd(num_frames, trims.items[1][2])
             /\ trims.items[1] = <<None, None>> => (res.a = 0 /\ res.b = num_frames)
             /\ (num_frames = 10 /\ trims.items[1] = <<Some(-1), None>>)
                   => (res.a = 9 /\ res.b = 10)
    /\ (fn = "_negative_to_positive_list" /\ res.kind = "ok")
          => /\ Len(res.a) = Len(trims.items) /\ Len(res.b) = Len(trims.items)
             /\ \A i \in 1..Len(trims.items) :
                   LET t == trims.items[i]
                       one == _negative_to_positive_single(num_frames, t[1], t[2])
                   IN  /\ res.a[i] = ExpectedStart(num_frames, t[1])
                       /\ ~EndsWithZero(t) => res.b[i] = ExpectedEnd(num_frames, t[2])
                       /\ one.kind = "ok" /\ one.a = res.a[i] /\ one.b = res.b[i]
    /\ (fn = "_negative_to_positive_list" /\ num_frames = ScenarioFrames
        /\ trims = ScenarioTrims)
          => /\ res.kind = "ok"
             /\ res.a = <<3, 23, 48, 50, 90, 97>>
             /\ res.b = <<22, 40, 49, 80, 95, 100>>
    /\ (fn = "eztrim_trims" /\ res.kind \in {"single", "multi"})
          => \A i \in 1..Len(trims.items) :
                /\ res.starts[i] = ExpectedStart(num_frames, trims.items[i][1])
                /\ ~EndsWithZero(trims.items[i])
                      => res.ends[i] = ExpectedEnd(num_frames, trims.items[i][2])

\* The scenario list has been resolved by the list form.
C8_Witness ==
    /\ fn = "_negative_to_positive_list"
    /\ trims = ScenarioTrims
    /\ res.kind = "ok"

SomeNotLogical(ss, es) == \E i \in 1..Len(ss) : ss[i] >= es[i]

SomeOverlap(ss, es) == \E i \in 1..(Len(ss) - 1) : ~(es[i] < ss[i + 1])

\* C9: the ordering check fails iff some resolved trim has start >= end;
\* otherwise it passes and warns iff two trims adjacent in caller order
\* violate end_i < start_(i+1).  In eztrim the advisory neither aborts nor
\* changes the resolved trims, and the 100-frame scenario passes unwarned.
C9_OrderingCheck ==
    /\ fn = "_check_ordered"
          => /\ res.ordered = ~SomeNotLogical(Resolved.a, Resolved.b)
             /\ res.warn = (res.ordered /\ SomeOverlap(Resolved.a, Resolved.b))
    /\ (fn = "eztrim_trims" /\ trims.form = "list" /\ Len(trims.items) # 1
        /\ ~HasEndZero(trims) /\ Resolved.kind = "ok")
          => IF SomeNotLogical(Resolved.a, Resolved.b)
             THEN res.kind = "raise" /\ res.err = ErrNotLogicalList
             ELSE /\ res.kind = "multi"
                  /\ res.starts = Resolved.a /\ res.ends = Resolved.b
                  /\ (WarnOverlap \in res.warns)
                        = SomeOverlap(Resolved.a, Resolved.b)
    /\ (fn = "eztrim_trims" /\ trims = ScenarioTrims)
          => /\ res.kind = "multi"
             /\ WarnOverlap \notin res.warns
             /\ res.starts = <<3, 23, 48, 50, 90, 97>>
             /\ res.ends = <<22, 40, 49, 80, 95, 100>>

\* eztrim accepted two overlapping trims and warned.
C9_Witness ==
    /\ fn = "eztrim_trims"
    /\ res.kind = "multi"
    /\ Len(res.starts) = 2
    /\ WarnOverlap \in res.warns

(***************************************************************************)
(* The codec specification: a list of audio streams is drawn and           *)
(* copy_or_decode is applied to it.                                        *)
(***************************************************************************)
CompressionTypes == {"LOSSLESS", "LOSSY", "EITHER", "NONE"}

\* The codecs ffmpeg lists, by what copy_or_decode reads of them, and the
\* codec None of a stream whose codec name ffmpeg does not list.
CodecInputs ==
    {[name |-> "codec", can_encode |-> e, compression_type |-> c] :
        e \in BOOLEAN, c \in CompressionTypes}
    \cup {NoCodec}

\* Bit depths: None (0), the depths with a pcm format, one without.
DepthInputs == {0, 8, 16, 20, 24, 32, 64}

CodecStreamLists ==
    UNION {{ss \in [1..k -> [codec : CodecInputs, depth : DepthInputs,
                             stream_index : 0..k]] :
               \A i \in 1..k : ss[i].stream_index = i} : k \in 0..MaxStreams}

InitCodec ==
    /\ pc = "idle" /\ op = "none" /\ disk = <<>> /\ log = <<>>
    /\ result = NoResult
    /\ ranges = <<>> /\ outfile = <<>> /\ combine = TRUE
    /\ streams \in CodecStreamLists
    /\ partials = <<>> /\ clipped = UnboundPath
    /\ starts = <<>> /\ ends = <<>>
    /\ temp_filelist = <<>> /\ debug_dict = Unbound
    /\ env = <<>> /\ warned = {}
    /\ num_frames = 0 /\ trims = [form |-> "list", items |-> <<>>]
    /\ fn = "none" /\ res = <<>>
    /\ TimecodesAtRest

Apply_copy_or_decode == Apply("copy_or_decode", copy_or_decode(streams))

NextCodec == Apply_copy_or_decode

SpecCodec == InitCodec /\ [][NextCodec]_vars

(***************************************************************************)
(* Claims about copy_or_decode (specification SpecCodec).                  *)
(***************************************************************************)
\* The directive the specification gives for one stream.
ExpectedDirective(st) ==
    IF st.codec.can_encode THEN <<"copy">>
    ELSE IF st.depth \in {8, 16, 24, 32, 64} THEN <<"pcm_s", st.depth, "le">>
    ELSE <<"pcm_s", 16, "le">>

\* The streams with their codecs' compression classes replaced.
WithCompression(ss, cts) ==
    [i \in 1..Len(ss) |->
        IF ss[i].codec = NoCodec THEN ss[i]
        ELSE [ss[i] EXCEPT !.codec.compression_type = cts[i]]]

\* C11: copy_or_decode fails with the unsupported-codec error, returning
\* no directive, if some stream has no codec; otherwise the stream at
\* position i gets (-c:a:i, copy) when its codec can be encoded and
\* (-c:a:i, pcm_s<depth>le or pcm_s16le) when not, and the returned
\* directives do not depend on the compression class that the advisory
\* is about.
C11_CopyOrDecode ==
    fn = "copy_or_decode"
        => /\ IF \E i \in 1..Len(streams) : streams[i].codec = NoCodec
              THEN res.kind = "raise" /\ res.err = ErrUnsupportedCodec /\ res.ac = <<>>
              ELSE /\ res.kind = "ok"
                   /\ Len(res.ac) = Len(streams)
                   /\ \A i \in 1..Len(streams) :
                         res.ac[i] = <<i - 1, ExpectedDirective(streams[i])>>
           /\ \A cts \in [1..Len(streams) -> CompressionTypes] :
                 /\ copy_or_decode(WithCompression(streams, cts)).kind = res.kind
                 /\ copy_or_decode(WithCompression(streams, cts)).ac = res.ac

\* Two streams were resolved: a lossy codec that can be encoded is copied,
\* a lossless codec that cannot be encoded is decoded at its depth.
C11_Witness ==
    /\ fn = "copy_or_decode" /\ res.kind = "ok"
    /\ Len(streams) = 2
    /\ streams[1].codec.can_encode /\ streams[1].codec.compression_type = "LOSSY"
    /\ ~streams[2].codec.can_encode /\ streams[2].depth = 24
    /\ streams[2].codec.compression_type = "LOSSLESS"
    /\ res.ac = << <<0, <<"copy">> >>, <<1, <<"pcm_s", 24, "le">> >> >>
    /\ res.advisories = <<"none", "info">>

(***************************************************************************)
(* Numbers.  Python's int and Fraction are exact and unbounded, and its    *)
(* float is IEEE binary64: 53 significant bits, every operation rounded    *)
(* to nearest, ties to even.  Naturals beyond the range of TLC's integers  *)
(* are sequences of limbs in base Limb, least significant first, without   *)
(* leading zeros (<<>> is 0).  A float is [m, e], the value m * 2^e with   *)
(* m a natural of at most 53 bits (or 2^53 itself).  A "small" operand is  *)
(* an integer below 214748, which keeps every intermediate product in      *)
(* range.                                                                  *)
(***************************************************************************)
Limb == 10000

RECURSIVE BigFromInt(_)
BigFromInt(n) == IF n = 0 THEN <<>> ELSE <<n % Limb>> \o BigFromInt(n \div Limb)

RECURSIVE BigNorm(_)
BigNorm(a) ==
    IF a = <<>> THEN <<>>
    ELSE IF a[Len(a)] = 0 THEN BigNorm(SubSeq(a, 1, Len(a) - 1))
    ELSE a

RECURSIVE BigMulCarry(_, _, _)
BigMulCarry(a, k, c) ==
    IF a = <<>> THEN BigFromInt(c)
    ELSE LET t == a[1] * k + c
         IN  <<t % Limb>> \o BigMulCarry(Tail(a), k, t \div Limb)

\* a * k for a small k.
BigMulSmall(a, k) == BigNorm(BigMulCarry(a, k, 0))

RECURSIVE BigAddCarry(_, _, _)
BigAddCarry(a, b, c) ==
    IF a = <<>> /\ b = <<>> THEN BigFromInt(c)
    ELSE LET x == IF a = <<>> THEN 0 ELSE a[1]
             y == IF b = <<>> THEN 0 ELSE b[1]
             t == x + y + c
         IN  <<t % Limb>> \o BigAddCarry(IF a = <<>> THEN <<>> ELSE Tail(a),
                                         IF b = <<>> THEN <<>> ELSE Tail(b),
                                         t \div Limb)

BigAdd(a, b) == BigNorm(BigAddCarry(a, b, 0))

RECURSIVE BigMul(_, _)
BigMul(a, b) ==
    IF a = <<>> \/ b = <<>> THEN <<>>
    ELSE BigAdd(BigMulSmall(b, a[1]),
                LET rest == BigMul(Tail(a), b)
                IN  IF rest = <<>> THEN <<>> ELSE <<0>> \o rest)

\* Quotient and remainder of a by a small k > 0.
RECURSIVE BigDivRaw(_, _)
BigDivRaw(a, k) ==
    IF a = <<>> THEN [q |-> <<>>, r |-> 0]
    ELSE LET hi == BigDivRaw(Tail(a), k)
             t == hi.r * Limb + a[1]
         IN  [q |-> <<t \div k>> \o hi.q, r |-> t % k]

BigDivSmall(a, k) == LET d == BigDivRaw(a, k) IN [q |-> BigNorm(d.q), r |-> d.r]

BigOdd(a) == a # <<>> /\ a[1] % 2 = 1

RECURSIVE BigLess(_, _)
BigLess(a, b) ==
    IF Len(a) # Len(b) THEN Len(a) < Len(b)
    ELSE IF a = <<>> THEN FALSE
    ELSE IF a[Len(a)] # b[Len(b)] THEN a[Len(a)] < b[Len(b)]
    ELSE BigLess(SubSeq(a, 1, Len(a) - 1), SubSeq(b, 1, Len(b) - 1))

\* a * 2^s, twelve bits at a time.
RECURSIVE BigShiftLeft(_, _)
BigShiftLeft(a, s) ==
    IF s = 0 THEN a
    ELSE IF s >= 12 THEN BigShiftLeft(BigMulSmall(a, 4096), s - 12)
    ELSE BigShiftLeft(BigMulSmall(a, 2), s - 1)

\* q / 2^s rounded to the nearest integer, ties to even; rb is the bit
\* shifted out last and st says whether a bit shifted out before it was set.
RECURSIVE BigRoundShift(_, _, _, _)
BigRoundShift(q, s, rb, st) ==
    IF s = 0
    THEN IF rb /\ (st \/ BigOdd(q)) THEN BigAdd(q, <<1>>) ELSE q
    ELSE IF s >= 12
    THEN LET d == BigDivSmall(q, 4096)
         IN  BigRoundShift(d.q, s - 12, d.r >= 2048, st \/ rb \/ d.r % 2048 # 0)
    ELSE LET d == BigDivSmall(q, 2)
         IN  BigRoundShift(d.q, s - 1, d.r = 1, st \/ rb)

\* 2^53 and 2^65.
Two53 == <<992, 5474, 1992, 9007>>

Two65 == <<3232, 1910, 1474, 3488, 3689>>

\* The float nearest to q * 2^e (st: q stands for a value slightly above q).
RECURSIVE FloatRound(_, _, _, _)
FloatRound(q, e, rb, st) ==
    IF BigLess(q, Two53)
    THEN [m |-> IF rb /\ (st \/ BigOdd(q)) THEN BigAdd(q, <<1>>) ELSE q, e |-> e]
    ELSE IF ~BigLess(q, Two65)
    THEN LET d == BigDivSmall(q, 4096)
         IN  FloatRound(d.q, e + 12, d.r >= 2048, st \/ rb \/ d.r % 2048 # 0)
    ELSE LET d == BigDivSmall(q, 2)
         IN  FloatRound(d.q, e + 1, d.r = 1, st \/ rb)

\* float(n): an int converted to float.
FloatOfBig(a) == FloatRound(a, 0, FALSE, FALSE)

\* 0.0
FloatZero == [m |-> <<>>, e |-> 0]

\* Bits kept below the binary point when a quotient is formed: for a
\* dividend of at least 1 and a divisor of at most 10^9 the quotient
\* a * 2^QuotientBits / d has more than 53 bits.
QuotientBits == 84

\* n / d in floats, for small n >= 0 and d >= 1: Fraction.__float__ and the
\* true division of two ints.
FloatDiv(n, d) ==
    IF n = 0 THEN FloatZero
    ELSE LET x == BigDivSmall(BigShiftLeft(BigFromInt(n), QuotientBits), d)
         IN  FloatRound(x.q, -QuotientBits, FALSE, x.r # 0)

\* a / 1e9 in floats, for a natural a below 2^53 (10^9 = 31250 * 32000).
FloatDivGiga(a) ==
    IF a = <<>> THEN FloatZero
    ELSE LET x == BigDivSmall(BigShiftLeft(a, QuotientBits), 31250)
             y == BigDivSmall(x.q, 32000)
         IN  FloatRound(y.q, -QuotientBits, FALSE, x.r # 0 \/ y.r # 0)

\* x * y in floats.
FloatMul(x, y) ==
    IF x.m = <<>> \/ y.m = <<>> THEN FloatZero
    ELSE FloatRound(BigMul(x.m, y.m), x.e + y.e, FALSE, FALSE)

\* round(x) of a float x: the nearest integer, ties to even.
RoundFloat(x) ==
    IF x.e >= 0 THEN BigShiftLeft(x.m, x.e)
    ELSE BigRoundShift(x.m, -x.e, FALSE, FALSE)

\* round(a / d) of the exact quotient of a natural a by a small d
\* (round of a Fraction): the nearest integer, ties to even.
RoundQuotient(a, d) ==
    LET x == BigDivSmall(a, d)
    IN  IF 2 * x.r > d \/ (2 * x.r = d /\ BigOdd(x.q))
        THEN BigAdd(x.q, <<1>>) ELSE x.q

\* 10^9 * f for a small f.
Giga(f) == BigMulSmall(BigMulSmall(BigFromInt(f), 31250), 32000)

\* Fractions <<numerator, denominator>> in lowest terms, as
\* fractions.Fraction keeps them.
RECURSIVE Gcd(_, _)
Gcd(a, b) == IF b = 0 THEN a ELSE Gcd(b, a % b)

Fraction(n, d) == <<n \div Gcd(n, d), d \div Gcd(n, d)>>

FractionAdd(x, y) == Fraction(x[1] * y[2] + y[1] * x[2], x[2] * y[2])

\* float(x) of a Fraction x.
FloatOfFraction(x) == FloatDiv(x[1], x[2])

(***************************************************************************)
(* Timecode tables: get_timecodes and clip_to_timecodes of                 *)
(* acsuite/timecode.py, f2ts and clip_to_timecodes of acsuite/__init__.py. *)
(* A clip is [num_frames, fps, durations]: fps is a Fraction, <<0, 1>> for *)
(* a variable-frame-rate clip, and durations holds the _DurationNum and    *)
(* _DurationDen of each frame clip.frames() yields.  A table is a sequence *)
(* of floats, the entry of frame f at position f + 1.                      *)
(***************************************************************************)
\* Fraction(0, 1), the fps of a variable-frame-rate clip.
VariableRate == <<0, 1>>

ErrDequeIndex == "IndexError: deque index out of range"

\* One element of the list comprehension of get_timecodes:
\* round(float(1e9*f*(1/clip.fps)))/1e9, computed in floats.
get_timecodes_entry(f, fps) ==
    FloatDivGiga(RoundFloat(FloatMul(FloatOfBig(Giga(f)), FloatDiv(fps[2], fps[1]))))

\* The table of a constant-frame-rate clip.
get_timecodes_cfr(c) == [i \in 1..(c.num_frames + 1) |-> get_timecodes_entry(i - 1, c.fps)]

\* The table read from a timecodes file: float(x) / 1000 of every line
\* after the header.
get_timecodes_file(lines) == [i \in 1..Len(lines) |-> FloatDiv(lines[i], 1000)]

\* The running total of the first k frame durations, an exact Fraction.
RECURSIVE CurrTime(_, _)
CurrTime(durations, k) ==
    IF k = 0 THEN <<0, 1>>
    ELSE FractionAdd(CurrTime(durations, k - 1), durations[k])

\* The last n elements of a sequence: what a deque of maxlen n keeps.
Last(seq, n) == IF Len(seq) <= n THEN seq ELSE SubSeq(seq, Len(seq) - n + 1, Len(seq))

\* The frame-by-frame walk of either clip_to_timecodes: 0.0, then the
\* float of the running total after each frame.
WalkFrames(c) ==
    [i \in 1..(Len(c.durations) + 1) |->
        IF i = 1 THEN FloatZero ELSE FloatOfFraction(CurrTime(c.durations, i - 1))]

\* clip_to_timecodes behind its lru_cache: "init" is the function of
\* acsuite/__init__.py (a deque of maxlen num_frames + 1), "timecode" the
\* function of acsuite/timecode.py (a list).  A hit returns the cached
\* table; a miss walks the clip and caches what it built.
clip_to_timecodes(which, c) ==
    IF c \in DOMAIN cache[which]
    THEN [table |-> cache[which][c], cache |-> cache, walks |-> walks]
    ELSE LET t == IF which = "init" THEN Last(WalkFrames(c), c.num_frames + 1)
                  ELSE WalkFrames(c)
         IN  [table |-> t,
              cache |-> [cache EXCEPT ![which] = (c :> t) @@ @],
              walks |-> walks + 1]

\* get_timecodes(timecodes_file, clip).
get_timecodes(file, c) ==
    IF file # None
    THEN [table |-> get_timecodes_file(file[1]), cache |-> cache, walks |-> walks]
    ELSE IF c.fps = VariableRate
    THEN clip_to_timecodes("timecode", c)
    ELSE [table |-> get_timecodes_cfr(c), cache |-> cache, walks |-> walks]

\* f2ts up to the seconds value s it formats: the frame's timestamp.
f2ts(f, file, c) ==
    LET g == IF f < 0 THEN f + c.num_frames ELSE f
        hit == clip_to_timecodes("init", c)
    IN  IF g = 0
        THEN [kind |-> "ok", err |-> "", s |-> FloatZero, cache |-> cache, walks |-> walks]
        ELSE IF c.fps # VariableRate
        THEN [kind |-> "ok", err |-> "",
              s |-> FloatDivGiga(RoundQuotient(BigMulSmall(Giga(g), c.fps[2]), c.fps[1])),
              cache |-> cache, walks |-> walks]
        ELSE IF file # None
        THEN IF PyInRange(get_timecodes_file(file[1]), g)
             THEN [kind |-> "ok", err |-> "", s |-> PyGet(get_timecodes_file(file[1]), g),
                   cache |-> cache, walks |-> walks]
             ELSE [kind |-> "raise", err |-> ErrIndex, s |-> FloatZero,
                   cache |-> cache, walks |-> walks]
        ELSE IF PyInRange(hit.table, g)
             THEN [kind |-> "ok", err |-> "", s |-> PyGet(hit.table, g),
                   cache |-> hit.cache, walks |-> hit.walks]
             ELSE [kind |-> "raise", err |-> ErrDequeIndex, s |-> FloatZero,
                   cache |-> hit.cache, walks |-> hit.walks]

(***************************************************************************)
(* The timecode specification: a clip and a timecodes file (or none) are   *)
(* drawn, and the functions above are called on them, in any order and any *)
(* number of times.                                                        *)
(***************************************************************************)
\* The constant frame rates: 24000/1001, 25, 2997/100 (29.97) and 1/3.
FpsInputs == {<<24000, 1001>>, <<25, 1>>, <<2997, 100>>, <<1, 3>>}

\* The frame durations of a variable-frame-rate clip: 1/25 s and 1/50 s.
DurationInputs == {<<1, 25>>, <<1, 50>>}

\* A clip of 55 minutes at 29.97 fps.  Its table is too long to build
\* here: its entries are computed one frame at a time.
LongFrames == 98916

LongClip == [num_frames |-> LongFrames, fps |-> <<2997, 100>>, durations |-> <<>>]

ClipInputs ==
    {[num_frames |-> n, fps |-> r, durations |-> <<>>] :
        n \in 0..MaxFrames, r \in FpsInputs}
    \cup UNION {{[num_frames |-> n, fps |-> VariableRate, durations |-> d] :
                    d \in [1..n -> DurationInputs]} : n \in 1..MaxFrames}
    \cup {LongClip}

\* Timecodes files of 1 to MaxFrames + 2 lines after the header, one line
\* every 40 ms.
FileInputs == {[i \in 1..k |-> (i - 1) * 40] : k \in 1..(MaxFrames + 2)}

\* The frames whose table entries are computed.
ProbeFrames(c) ==
    IF c.num_frames <= MaxFrames THEN 0..c.num_frames
    ELSE {c.num_frames - 1, c.num_frames}

InitTimecodes ==
    /\ PipelineAtRest
    /\ num_frames = 0 /\ trims = [form |-> "list", items |-> <<>>]
    /\ fn = "none" /\ res = <<>>
    /\ clip \in ClipInputs
    /\ timecodes_file \in {None} \cup {Some(f) : f \in FileInputs}
    /\ cache = [init |-> <<>>, timecode |-> <<>>]
    /\ walks = 0

restVars == <<pipelineVars, num_frames, trims, clip, timecodes_file>>

\* clip_to_timecodes(clip) of acsuite/__init__.py.
Call_clip_to_timecodes ==
    /\ clip.fps = VariableRate
    /\ LET r == clip_to_timecodes("init", clip)
       IN  /\ fn' = "clip_to_timecodes"
           /\ res' = [kind |-> "ok", err |-> "", table |-> r.table]
           /\ cache' = r.cache
           /\ walks' = r.walks
    /\ UNCHANGED restVars

\* clip_to_timecodes(clip) of acsuite/timecode.py.
Call_timecode_clip_to_timecodes ==
    /\ clip.fps = VariableRate
    /\ LET r == clip_to_timecodes("timecode", clip)
       IN  /\ fn' = "timecode.clip_to_timecodes"
           /\ res' = [kind |-> "ok", err |-> "", table |-> r.table]
           /\ cache' = r.cache
           /\ walks' = r.walks
    /\ UNCHANGED restVars

\* get_timecodes(timecodes_file, clip), for the clips whose table is built.
Call_get_timecodes ==
    /\ clip.num_frames <= MaxFrames
    /\ LET r == get_timecodes(timecodes_file, clip)
       IN  /\ fn' = "get_timecodes"
           /\ res' = [kind |-> "ok", err |-> "", table |-> r.table]
           /\ cache' = r.cache
           /\ walks' = r.walks
    /\ UNCHANGED restVars

\* The entry get_timecodes(None, clip) computes for one frame of a
\* constant-frame-rate clip.
Apply_get_timecodes_entry ==
    /\ clip.fps # VariableRate
    /\ \E f \in ProbeFrames(clip) :
          /\ fn' = "get_timecodes_entry"
          /\ res' = [kind |-> "ok", err |-> "", frame |-> f,
                     entry |-> get_timecodes_entry(f, clip.fps)]
    /\ UNCHANGED <<restVars, cache, walks>>

\* f2ts(f, timecodes_file=timecodes_file, src_clip=clip) for a frame number
\* from -num_frames to num_frames + 1.
Call_f2ts ==
    /\ clip.num_frames <= MaxFrames
    /\ \E f \in (-clip.num_frames)..(clip.num_frames + 1) :
          LET r == f2ts(f, timecodes_file, clip)
          IN  /\ fn' = "f2ts"
              /\ res' = [kind |-> r.kind, err |-> r.err, frame |-> f, s |-> r.s]
              /\ cache' = r.cache
              /\ walks' = r.walks
    /\ UNCHANGED restVars

NextTimecodes ==
    \/ Call_clip_to_timecodes
    \/ Call_timecode_clip_to_timecodes
    \/ Call_get_timecodes
    \/ Apply_get_timecodes_entry
    \/ Call_f2ts

SpecTimecodes == InitTimecodes /\ [][NextTimecodes]_vars

(***************************************************************************)
(* Claims about the timecode tables (specification SpecTimecodes).         *)
(***************************************************************************)
ErrLengthMismatch == "LengthMismatch"

\* C12: a table built from a supplied timecodes file for an N-frame clip
\* has exactly N + 1 entries, or the build fails with LengthMismatch; a
\* file of another length never leads to a lookup outside the table.
C12_FileTableLength ==
    /\ (fn = "get_timecodes" /\ timecodes_file # None)
          => \/ res.kind = "raise" /\ res.err = ErrLengthMismatch
             \/ res.kind = "ok" /\ Len(res.table) = clip.num_frames + 1
    /\ (fn = "f2ts" /\ timecodes_file # None /\ clip.fps = VariableRate
        /\ Len(timecodes_file[1]) # clip.num_frames + 1)
          => res.kind = "raise" /\ res.err = ErrLengthMismatch

\* round(1e9 * f / R) / 1e9: the exact quotient rounded to the nearest
\* nanosecond, then divided by 1e9.
ExactEntry(f, fps) == FloatDivGiga(RoundQuotient(BigMulSmall(Giga(f), fps[2]), fps[1]))

\* x <= y for floats.
FloatLeq(x, y) ==
    IF x.e >= y.e
    THEN ~BigLess(y.m, BigShiftLeft(x.m, x.e - y.e))
    ELSE ~BigLess(BigShiftLeft(y.m, y.e - x.e), x.m)

\* C13: the table get_timecodes builds for a constant-frame-rate clip of N
\* frames has N + 1 entries, starts at 0, and its entry for frame i is
\* round(1e9 * i / R) / 1e9; a zero-frame clip yields [0.0].
C13_ConstantRateTable ==
    /\ (fn = "get_timecodes" /\ timecodes_file = None /\ clip.fps # VariableRate)
          => /\ Len(res.table) = clip.num_frames + 1
             /\ res.table[1] = FloatZero
             /\ \A i \in 0..clip.num_frames : res.table[i + 1] = ExactEntry(i, clip.fps)
             /\ \A i \in 1..clip.num_frames : FloatLeq(res.table[i], res.table[i + 1])
             /\ clip.num_frames = 0 => res.table = <<FloatZero>>
    /\ fn = "get_timecodes_entry" => res.entry = ExactEntry(res.frame, clip.fps)

\* C14: however the table of a variable-frame-rate clip is asked for, the
\* clip's frames are walked at most once, and every call returns the table
\* of the walk: N + 1 offsets from 0, each the float of the exact running
\* total of the durations.
C14_WalkedOnce ==
    /\ walks <= 1
    /\ (fn \in {"clip_to_timecodes", "timecode.clip_to_timecodes"}
        \/ (fn = "get_timecodes" /\ timecodes_file = None /\ clip.fps = VariableRate))
          => res.table = WalkFrames(clip)

(***************************************************************************)
(* The stream-mapping specification: streams, output templates and the     *)
(* combine flag are drawn and map_streams is applied to them.              *)
(***************************************************************************)
InitMap ==
    /\ pc = "idle" /\ op = "none" /\ disk = <<>> /\ log = <<>>
    /\ result = NoResult
    /\ ranges = <<>>
    /\ streams \in StreamLists
    /\ outfile \in OutfileInputs
    /\ combine \in BOOLEAN
    /\ partials = <<>> /\ clipped = UnboundPath
    /\ starts = <<>> /\ ends = <<>>
    /\ temp_filelist = <<>> /\ debug_dict = Unbound
    /\ env = <<>> /\ warned = {}
    /\ num_frames = 0 /\ trims = [form |-> "list", items |-> <<>>]
    /\ fn = "none" /\ res = <<>>
    /\ TimecodesAtRest

Apply_map_streams ==
    Apply("map_streams", map_streams(streams, outfile, SourceName, combine))

NextMap == Apply_map_streams

SpecMap == InitMap /\ [][NextMap]_vars

(***************************************************************************)
(* Claims about map_streams (specification SpecMap).                       *)
(***************************************************************************)
\* The errors that report an output list that does not fit the streams.
AmbiguousOutput == {ErrImproperNumber, ErrNoIndexSpecifier, ErrTooManyOutputs}

\* C15: with per-stream outputs requested, map_streams fails with
\* AmbiguousOutput whenever the number of output paths differs from the
\* number of streams and the template has no index placeholder, for every
\* stream count including 1; when it succeeds every stream is mapped, no
\* two streams share an output path and no output path is dropped.
C15_AmbiguousOutput ==
    (fn = "map_streams" /\ ~combine)
        => /\ (Len(outfile) # Len(streams) /\ ~outfile[1].hasIndex)
                 => res.kind = "raise" /\ res.err \in AmbiguousOutput
           /\ res.kind = "ok"
                 => /\ Len(res.maps) = Len(streams)
                    /\ \A i, j \in 1..Len(res.maps) :
                          i # j => res.maps[i].path # res.maps[j].path
                    /\ Len(outfile) > 1 => Len(res.maps) = Len(outfile)

(***************************************************************************)
(* Claims about the order of recut's steps (specification Spec).           *)
(***************************************************************************)
\* The positions of the log that hold an invocation of the given kind.
Invocations(cmd) == {i \in 1..Len(log) : log[i].cmd = cmd}

\* C16: in recut the toolkit invocations are sequential: the i-th
\* invocation extracts the i-th range, for one range after the other; the
\* one concatenation comes after all K > 1 extractions succeeded, and its
\* manifest lists the K segments in range order; the demux comes after
\* the concatenation succeeded; one range is extracted and not
\* concatenated; a call that returns has extracted every range once.
C16_SequentialInvocations ==
    op = "recut"
        => /\ \A i \in Invocations("extract") :
                 /\ i <= Len(ranges)
                 /\ log[i].range = ranges[i]
                 /\ \A j \in 1..i : j \in Invocations("extract")
           /\ \A i \in Invocations("concat") :
                 /\ Len(ranges) > 1
                 /\ i = Len(ranges) + 1
                 /\ Len(partials) = Len(ranges)
                 /\ log[i].files = partials
                 /\ \A j \in 1..Len(ranges) :
                       j \in Invocations("extract") /\ log[j].files = <<partials[j]>>
           /\ \A i \in Invocations("demux") :
                 /\ i = Len(log)
                 /\ Invocations("extract") = 1..Len(ranges)
                 /\ clipped # UnboundPath
                 /\ log[i - 1] = Invocation("probe", <<>>, <<clipped>>)
                 /\ IF Len(ranges) > 1
                    THEN Invocations("concat") = {i - 2}
                    ELSE Invocations("concat") = {}
           /\ Len(ranges) = 1 => Invocations("concat") = {}
           /\ (pc = "done" /\ result.kind = "return")
                 => Invocations("extract") = 1..Len(ranges)

\* recut returned after three extractions, the concatenation, the probe
\* and the demux.
C16_Witness ==
    /\ op = "recut" /\ pc = "done" /\ result.kind = "return"
    /\ Len(ranges) = 3 /\ ~combine /\ Len(streams) = 2
    /\ Len(log) = 6
    /\ log[4].cmd = "concat" /\ log[6].cmd = "demux"

\* C17: when recut is called with per-stream outputs (combine false, more
\* than one stream) and returns, the paths it returns are the paths the
\* demux invocation wrote to, in stream order: the filename placeholder
\* stands for the source file name and the index placeholder for the same
\* value in both.
C17_ReturnedPathsAreWritten ==
    (/\ op = "recut" /\ pc = "done" /\ result.kind = "return"
     /\ ~combine /\ Len(streams) > 1)
        => /\ Invocations("demux") # {}
           /\ \A i \in Invocations("demux") :
                 /\ log[i].files = result.value
                 /\ \A k \in 1..Len(log[i].files) :
                       log[i].files[k].filename \in {NoName, SourceName}

\* C18: when a step of recut fails (an extraction, the concatenation, the
\* demux, the rename, an empty range list), the cleanup block raises
\* nothing of its own: the error that reaches the caller is the error the
\* step raised, also when no clipped file was produced yet.
C18_CleanupKeepsError ==
    [][(op = "recut" /\ pc = "finally" /\ result.kind = "pending")
          => (result'.kind = "raise" /\ result'.err = result.err)]_vars

(***************************************************************************)
(* The two normalizers compared (specification SpecTrims).                 *)
(***************************************************************************)
\* The (start, end) pairs eztrim resolved.
Pairs(e) == [i \in 1..Len(e.starts) |-> <<e.starts[i], e.ends[i]>>]

\* What one normalizer made of the trims against what the other did.
Agree(e, f) ==
    /\ (e.kind \in {"single", "multi"}) = (f.kind = "ok")
    /\ f.kind = "ok" => Pairs(e) = f.frames

\* Every raw index has magnitude at most n and no end is 0.
Comparable(n, t) == ~ExceedsClip(n, t) /\ ~HasEndZero(t)

\* C19: for every clip length N and every trim whose raw indices have
\* magnitude at most N and whose end is not 0, eztrim's normalizer
\* (_negative_to_positive, single or list form, then the start < end
\* check) and frames_to_timecodes accept or reject the trim alike, and
\* resolve an accepted trim to the same (start, end) pairs.
C19_NormalizersAgree ==
    /\ (fn = "frames_to_timecodes" /\ Comparable(num_frames, trims))
          => Agree(eztrim_resolve(num_frames, trims), res)
    /\ (fn = "eztrim_trims" /\ Comparable(num_frames, trims) /\ res.kind # "return")
          => Agree(res, frames_to_timecodes(trims, InputTable(num_frames)))

\* frames_to_timecodes accepted two trims, one with a negative start and an
\* omitted end, that eztrim's normalizer accepts too.
C19_Witness ==
    /\ fn = "frames_to_timecodes"
    /\ num_frames = 3
    /\ trims = [form |-> "list",
                items |-> << <<None, Some(-2)>>, <<Some(-1), None>> >>]
    /\ res.kind = "ok"
    /\ res.frames = << <<0, 1>>, <<2, 3>> >>
    /\ eztrim_resolve(num_frames, trims).kind = "multi"

====
